---- MODULE Spec2Model ----
(***************************************************************************)
(* cy-parallel: distribution of Cypress spec files over worker processes.  *)
(*                                                                         *)
(* Four state machines are modelled:                                       *)
(*   PlanSpec : getFileBucketsCustom (index.ts), one step per statement of *)
(*              its loop                                                   *)
(*   Spec     : runParallelCypress (index.ts) with runCypress, one step    *)
(*              per synchronous block between two awaits (Node's event     *)
(*              loop runs each block atomically)                           *)
(*   CfgSpec  : getConfig (envUtils.ts) on an environment                  *)
(*   InfoSpec : getFileInfo (weightUtils.ts), one step per entry into and  *)
(*              return from visit                                          *)
(***************************************************************************)
EXTENDS Integers, Sequences, FiniteSets, TLC

\* ------------------------------------------------------------------ bounds
\* Planner inputs: at most MaxFiles files, weights 1..MaxWeight, and bucket
\* counts up to MaxBuckets.
MaxFiles == 5
MaxWeight == 3
MaxBuckets == 3
\* Runs: at most MaxRunFiles discovered files with estimated weights
\* 1..MaxRunWeight, WORKERS up to MaxWorkers, runner exit codes 0..MaxExitCode.
MaxRunFiles == 3
MaxRunWeight == 2
MaxWorkers == 3
MaxExitCode == 1
\* getConfig: environment values of at most MaxTextLen characters, hosts with
\* up to MaxCpus CPUs.
MaxTextLen == 2
MaxCpus == 2
\* getFileInfo: files of at most MaxNodes call expressions, and the arguments
\* baseWeight and weightPerTest in -1..MaxParam.
MaxNodes == 3
MaxParam == 2

VARIABLES
    filesInfo,      \* getFileBucketsCustom's argument: FileInfo[] ({file, weight})
    bucketsCount,   \* getFileBucketsCustom's argument
    sortedFiles,    \* index.ts:27
    buckets,        \* index.ts:30, a function 0..bucketsCount-1 -> Seq(file)
    bucketWeights,  \* index.ts:31
    cursor,         \* position of the for..of loop of index.ts:34 in sortedFiles
    planPc,         \* "sort" | "place" | "done" | "threw"
    \* ---- runParallelCypress
    pc,             \* "validate" | "collect" | "mode" | "spawn" | "await" | "exit"
    POLL,           \* getConfig().POLL
    WORKERS,        \* getConfig().WORKERS
    testFiles,      \* index.ts:96
    estimates,      \* file -> getFileInfo's result: <<>> (null) or <<weight>>
    queue,          \* index.ts:203
    numWorkers,     \* index.ts:202
    started,        \* the counter i of the loop of index.ts:281
    procs,          \* worker index -> [st, tests, hasFailed]: the async callbacks
    settled,        \* worker index -> the CypressResult its promise resolved with
    completedTests, \* index.ts:98
    results,        \* what Promise.all resolved with (index.ts:162, 286)
    exitCalls,      \* the codes process.exit was called with, in order
    exitPath,       \* which statement ended the run
    attempts,       \* history: file -> number of runCypress calls that included it
    runLog,         \* history: the finished runCypress calls
                    \*   [index, tests, outcome, result]
    IS_LINUX,       \* getConfig().IS_LINUX, as cypressRunner.ts:27 reads it
    dirStatus,      \* what statSync found at the configured DIR
    helpers,        \* history: worker index -> Xvfb processes spawned for it
    runners,        \* history: worker index -> runner processes spawned for it
    taken,          \* history: the files the dequeues returned, in order
    progress,       \* history: the progress lines logged: [completed, total]
    \* ---- getConfig
    env,            \* process.env: key -> [set, text]
    cpus,           \* os.cpus().length
    config,         \* <<>> before the call, <<getConfig()'s result>> after it
    \* ---- getFileInfo
    source,         \* the file's call expressions in source order: [callee, depth]
    position,       \* the next node of source that visit is called on
    frames,         \* the active calls of visit: [depth, isEnteringDescribe]
    skippedDescribeStack, \* weightUtils.ts:24
    testCount,      \* weightUtils.ts:23
    params,         \* <<>>, then <<baseWeight, weightPerTest>> once they are read
    info,           \* <<>> before the return, <<what getFileInfo returned>> after
    infoPc          \* "read" | "visit" | "done"

planVars == <<filesInfo, bucketsCount, sortedFiles, buckets, bucketWeights,
              cursor, planPc>>
runVars == <<pc, POLL, WORKERS, testFiles, estimates, queue, numWorkers, started,
             procs, settled, completedTests, results, exitCalls, exitPath,
             attempts, runLog, IS_LINUX, dirStatus, helpers, runners, taken,
             progress>>
cfgVars == <<env, cpus, config>>
infoVars == <<source, position, frames, skippedDescribeStack, testCount,
              params, info, infoPc>>
vars == <<planVars, runVars, cfgVars, infoVars>>
\* What a run leaves alone, and what the planner leaves alone.
idleInRun == <<planVars, cfgVars, infoVars>>
idleInPlan == <<runVars, cfgVars, infoVars>>

\* ----------------------------------------------------------- small helpers
RECURSIVE SumSeq(_)
SumSeq(s) == IF s = <<>> THEN 0 ELSE Head(s) + SumSeq(Tail(s))

RECURSIVE SumOver(_, _)
SumOver(f, S) ==
    IF S = {} THEN 0
    ELSE LET x == CHOOSE y \in S : TRUE IN f[x] + SumOver(f, S \ {x})

MaxOf(S) == CHOOSE x \in S : \A y \in S : y <= x
MinOf(S) == CHOOSE x \in S : \A y \in S : x <= y

\* ------------------------------------------------- getFileBucketsCustom
\* The comparator of index.ts:27: (a, b) => b.weight - a.weight.
CompareAscending(a, b) == a.weight - b.weight
CompareWeight(a, b) == b.weight - a.weight

\* Array.prototype.sort is stable: x, which preceded every element of the
\* sorted rest t, goes after the elements the comparator puts strictly before
\* it and before the others.
InsertSortedTiesFirst(x, t) ==
    LET before == {j \in 1..Len(t) : CompareWeight(t[j], x) <= 0}
        k == Cardinality(before)
    IN  SubSeq(t, 1, k) \o <<x>> \o SubSeq(t, k + 1, Len(t))
InsertSorted(x, t) ==
    LET before == {j \in 1..Len(t) : CompareWeight(t[j], x) < 0}
        k == Cardinality(before)
    IN  SubSeq(t, 1, k) \o <<x>> \o SubSeq(t, k + 1, Len(t))

SortFilesNone(s) == s

RECURSIVE SortFiles(_)
SortFiles(s) ==
    IF s = <<>> THEN <<>> ELSE InsertSorted(Head(s), SortFiles(Tail(s)))

\* index.ts:36-41: the scan for the bucket with the least total weight.
RECURSIVE ScanLastMin(_, _, _, _)
ScanLastMin(bw, n, i, minIndex) ==
    IF i >= n THEN minIndex
    ELSE ScanLastMin(bw, n, i + 1, IF bw[i] <= bw[minIndex] THEN i ELSE minIndex)

RECURSIVE ScanHeaviest(_, _, _, _)
ScanHeaviest(bw, n, i, minIndex) ==
    IF i >= n THEN minIndex
    ELSE ScanHeaviest(bw, n, i + 1, IF bw[i] > bw[minIndex] THEN i ELSE minIndex)

RECURSIVE ScanMin(_, _, _, _)
ScanMin(bw, n, i, minIndex) ==
    IF i >= n THEN minIndex
    ELSE ScanMin(bw, n, i + 1, IF bw[i] < bw[minIndex] THEN i ELSE minIndex)

MinIndexLast(bw, n) == ScanLastMin(bw, n, 1, 0)
MinIndex(bw, n) == ScanMin(bw, n, 1, 0)

\* index.ts:30-31. Array.from({length: n}) is empty for n <= 0; Array(n)
\* throws a RangeError for n < 0.
InitThrows(n) == n < 0
EmptyBuckets(n) == [i \in 0..(n - 1) |-> <<>>]
ZeroWeights(n) == [i \in 0..(n - 1) |-> 0]

\* index.ts:34-45, one iteration. buckets[minIndex] is undefined when there is
\* no bucket, and .push on it throws a TypeError.
PlaceFileOverwrite(st, fileInfo, n) ==
    LET minIndex == MinIndex(st.bucketWeights, n) IN
    IF minIndex \notin DOMAIN st.buckets
    THEN [st EXCEPT !.threw = TRUE]
    ELSE [st EXCEPT !.buckets[minIndex] = <<fileInfo.file>>,
                    !.bucketWeights[minIndex] = @ + fileInfo.weight]
PlaceFile(st, fileInfo, n) ==
    LET minIndex == MinIndex(st.bucketWeights, n) IN
    IF minIndex \notin DOMAIN st.buckets
    THEN [st EXCEPT !.threw = TRUE]
    ELSE [st EXCEPT !.buckets[minIndex] = Append(@, fileInfo.file),
                    !.bucketWeights[minIndex] = @ + fileInfo.weight]

RECURSIVE PlaceAll(_, _, _)
PlaceAll(st, files, n) ==
    IF files = <<>> \/ st.threw THEN st
    ELSE PlaceAll(PlaceFile(st, Head(files), n), Tail(files), n)

\* The whole function, index.ts:15-64: [threw, buckets, bucketWeights].
GetFileBucketsCustom(n, infos) ==
    IF InitThrows(n)
    THEN [threw |-> TRUE, buckets |-> <<>>, bucketWeights |-> <<>>]
    ELSE PlaceAll([threw |-> FALSE, buckets |-> EmptyBuckets(n),
                   bucketWeights |-> ZeroWeights(n)],
                  SortFiles(infos), n)

EmptyMap == [x \in {} |-> x]

\* The run's variables while only the planner is exercised.
RunIdle ==
    /\ pc = "idle"
    /\ POLL = FALSE
    /\ WORKERS = 0
    /\ testFiles = <<>>
    /\ estimates = EmptyMap
    /\ queue = <<>>
    /\ numWorkers = 0
    /\ started = 0
    /\ procs = EmptyMap
    /\ settled = EmptyMap
    /\ completedTests = 0
    /\ results = <<>>
    /\ exitCalls = <<>>
    /\ exitPath = "none"
    /\ attempts = EmptyMap
    /\ runLog = {}
    /\ IS_LINUX = FALSE
    /\ dirStatus = "unknown"
    /\ helpers = EmptyMap
    /\ runners = EmptyMap
    /\ taken = <<>>
    /\ progress = {}

\* The planner's variables while a run is exercised.
PlanIdle ==
    /\ filesInfo = <<>>
    /\ bucketsCount = 0
    /\ sortedFiles = <<>>
    /\ buckets = <<>>
    /\ bucketWeights = <<>>
    /\ cursor = 0
    /\ planPc = "idle"

\* getConfig's variables while something else is exercised.
CfgIdle ==
    /\ env = EmptyMap
    /\ cpus = 0
    /\ config = <<>>

\* getFileInfo's variables while something else is exercised.
InfoIdle ==
    /\ source = <<>>
    /\ position = 0
    /\ frames = <<>>
    /\ skippedDescribeStack = <<>>
    /\ testCount = 0
    /\ params = <<>>
    /\ info = <<>>
    /\ infoPc = "idle"

\* ------------------------------------------------------- planner machine
\* The worked example of the planner: weights 10, 9, 8, 1 (in any input order).
ExampleWeights == <<10, 9, 8, 1>>
Permutations4 ==
    {p \in [1..4 -> 1..4] : \A i, j \in 1..4 : i # j => p[i] # p[j]}
ExampleInputs == {[i \in 1..4 |-> ExampleWeights[p[i]]] : p \in Permutations4}

WeightLists ==
    UNION {[1..n -> 1..MaxWeight] : n \in 0..MaxFiles} \cup ExampleInputs

\* A file's path is its position in the discovered list: paths are distinct.
AsFilesInfo(ws) == [i \in 1..Len(ws) |-> [file |-> i, weight |-> ws[i]]]

PlanInit ==
    /\ filesInfo \in {AsFilesInfo(ws) : ws \in WeightLists}
    /\ bucketsCount \in (0 - 1)..MaxBuckets
    /\ sortedFiles = <<>>
    /\ buckets = <<>>
    /\ bucketWeights = <<>>
    /\ cursor = 0
    /\ planPc = "sort"
    /\ RunIdle
    /\ CfgIdle
    /\ InfoIdle

\* index.ts:27-31
PlanSort ==
    /\ planPc = "sort"
    /\ sortedFiles' = SortFiles(filesInfo)
    /\ IF InitThrows(bucketsCount)
       THEN /\ planPc' = "threw"
            /\ UNCHANGED <<buckets, bucketWeights, cursor>>
       ELSE /\ buckets' = EmptyBuckets(bucketsCount)
            /\ bucketWeights' = ZeroWeights(bucketsCount)
            /\ cursor' = 1
            /\ planPc' = "place"
    /\ UNCHANGED <<filesInfo, bucketsCount>>
    /\ UNCHANGED idleInPlan

\* index.ts:34-45, one iteration of the loop
PlanPlace ==
    /\ planPc = "place"
    /\ cursor <= Len(sortedFiles)
    /\ LET st == PlaceFile([threw |-> FALSE, buckets |-> buckets,
                            bucketWeights |-> bucketWeights],
                           sortedFiles[cursor], bucketsCount)
       IN  /\ buckets' = st.buckets
           /\ bucketWeights' = st.bucketWeights
           /\ planPc' = IF st.threw THEN "threw" ELSE "place"
           /\ cursor' = IF st.threw THEN cursor ELSE cursor + 1
    /\ UNCHANGED <<filesInfo, bucketsCount, sortedFiles>>
    /\ UNCHANGED idleInPlan

\* index.ts:63
PlanReturn ==
    /\ planPc = "place"
    /\ cursor > Len(sortedFiles)
    /\ planPc' = "done"
    /\ UNCHANGED <<filesInfo, bucketsCount, sortedFiles, buckets,
                   bucketWeights, cursor>>
    /\ UNCHANGED idleInPlan

PlanNext == PlanSort \/ PlanPlace \/ PlanReturn

PlanSpec == PlanInit /\ [][PlanNext]_vars

\* ------------------------------------------------------------ runCypress
\* The exit code null of a runner that a signal ended (cypressRunner.ts:57-59
\* resolves with whatever 'close' reports): a value that is no exit code.
NullCode == 0 - 1

\* What the spawned runner process does: it closes with an exit code (null
\* after a signal), or the child process emits 'error', which is also how Node
\* reports that the command could not be spawned.
RunnerOutcomes ==
    {[kind |-> "close", code |-> c] : c \in (0..MaxExitCode) \cup {NullCode}}
        \cup {[kind |-> "error"]}

\* What the await of startXvfb can do other than resolve: reject.
XvfbOutcomes == {[kind |-> "xvfbThrows"]}

\* The ways the await a runCypress call waits at can end, st being "xvfb"
\* (cypressRunner.ts:31) or "running" (cypressRunner.ts:56-64).
OutcomesAt(st) == IF st = "xvfb" THEN XvfbOutcomes ELSE RunnerOutcomes

\* cypressRunner.ts:26-78: the try block: the CypressResult it returns, or
\* the throw of the rejected await.
RunCypressTryCodeOne(index, outcome) ==
    IF outcome.kind # "close"
    THEN [threw |-> TRUE]
    ELSE [threw |-> FALSE,
          value |-> IF outcome.code # 0
                    THEN [status |-> "rejected", index |-> index, code |-> 1]
                    ELSE [status |-> "fulfilled", index |-> index, code |-> 0]]
RunCypressTry(index, outcome) ==
    IF outcome.kind # "close"
    THEN [threw |-> TRUE]
    ELSE [threw |-> FALSE,
          value |-> IF outcome.code # 0
                    THEN [status |-> "rejected", index |-> index,
                          code |-> outcome.code]
                    ELSE [status |-> "fulfilled", index |-> index,
                          code |-> outcome.code]]

\* cypressRunner.ts:79-88: the catch block returns a result without a code.
RunCypressCatchRethrow(index) == [threw |-> TRUE]
RunCypressCatch(index) ==
    [threw |-> FALSE, value |-> [status |-> "rejected", index |-> index]]

\* cypressRunner.ts:20-89: how a runCypress call completes.
RunCypress(index, outcome) ==
    LET body == RunCypressTry(index, outcome) IN
    IF body.threw THEN RunCypressCatch(index) ELSE body

\* index.ts:73-79
CreateCypressResult(status, index, code) ==
    [status |-> status, index |-> index, code |-> code]

\* ---------------------------------------------------- runParallelCypress
Files == {testFiles[k] : k \in 1..Len(testFiles)}
MinIntFirst(a, b) == a
MinInt(a, b) == IF a < b THEN a ELSE b

\* index.ts:164-188 and 288-312: the verdict over the collected results.
HasFailuresLastOnly(rs) == Len(rs) > 0 /\ rs[Len(rs)].status = "rejected"
HasFailures(rs) == \E k \in 1..Len(rs) : rs[k].status = "rejected"

ExitCodeForFirstWorker(rs) ==
    IF Len(rs) > 0 /\ rs[1].status = "rejected" THEN 1 ELSE 0
ExitCodeFor(rs) == IF HasFailures(rs) THEN 1 ELSE 0

\* index.ts:217-225: the dequeue; test is <<>> for undefined.
TakeTestLast(q) ==
    IF Len(q) > 0
    THEN [test |-> <<q[Len(q)]>>, rest |-> SubSeq(q, 1, Len(q) - 1)]
    ELSE [test |-> <<>>, rest |-> q]
TakeTestPop(q) ==
    IF Len(q) > 0
    THEN [test |-> <<Head(q)>>, rest |-> SubSeq(q, 1, Len(q) - 1)]
    ELSE [test |-> <<>>, rest |-> q]
TakeTest(q) ==
    IF Len(q) > 0
    THEN [test |-> <<Head(q)>>, rest |-> Tail(q)]
    ELSE [test |-> <<>>, rest |-> q]

\* index.ts:243-263: the worker's failure flag after one runCypress call.
AfterRunLastWins(hasFailed, result) == result.status # "fulfilled"
AfterRunNoFlag(hasFailed, result) == hasFailed
AfterRun(hasFailed, result) ==
    IF result.status = "fulfilled" THEN hasFailed ELSE TRUE

\* index.ts:236-264: the flag after the try/catch around the runCypress call.
WorkerFlag(hasFailed, completion) ==
    IF completion.threw THEN TRUE ELSE AfterRun(hasFailed, completion.value)

\* index.ts:135-158: what a bucket's callback resolves with.
BucketResult(index, completion) ==
    IF completion.threw
    THEN CreateCypressResult("rejected", index, 1)
    ELSE completion.value

\* What a finished runCypress call handed its caller, for the history.
Handed(index, completion) ==
    IF completion.threw THEN [status |-> "thrown", index |-> index]
    ELSE completion.value

\* index.ts:273-277
WorkerResultIndexZero(workerIndex, hasFailed) ==
    CreateCypressResult(IF hasFailed THEN "rejected" ELSE "fulfilled",
                        0,
                        IF hasFailed THEN 1 ELSE 0)
WorkerResult(workerIndex, hasFailed) ==
    CreateCypressResult(IF hasFailed THEN "rejected" ELSE "fulfilled",
                        workerIndex,
                        IF hasFailed THEN 1 ELSE 0)

\* index.ts:128: the buckets that get a worker.
LiveBucketsAll(bs) == DOMAIN bs
LiveBuckets(bs) == {i \in DOMAIN bs : Len(bs[i]) > 0}

\* index.ts:162 and 286: Promise.all resolves when every promise has.
SettledOrFailed(ps, res) ==
    \/ \A i \in DOMAIN ps : i \in DOMAIN res
    \/ \E i \in DOMAIN res : res[i].status = "rejected"
AnySettled(ps, res) == DOMAIN res # {}
AllSettled(ps, res) == \A i \in DOMAIN ps : i \in DOMAIN res

\* The promises' results in the promises' order (Promise.all keeps it).
RECURSIVE InIndexOrder(_, _)
InIndexOrder(f, S) ==
    IF S = {} THEN <<>>
    ELSE LET i == MinOf(S) IN <<f[i]>> \o InIndexOrder(f, S \ {i})

\* fileUtils.ts:17-25: statSync succeeded and the path is a directory.
DirAcceptedIfExists(status) == status # "missing"
DirAccepted(status) == status = "directory"

\* fileUtils.ts:59
NoTestFilesNever(files) == FALSE
NoTestFiles(files) == Len(files) = 0

\* index.ts:100-110: logProgress; the lines it logs, none or one.
LogProgressAlways(completed, total) ==
    {[completed |-> completed, total |-> total]}
LogProgress(completed, total) ==
    IF completed >= total THEN {}
    ELSE {[completed |-> completed, total |-> total]}

\* One more process spawned on behalf of worker index i.
Bump(count, i) ==
    IF i \in DOMAIN count THEN [count EXCEPT ![i] = @ + 1] ELSE count @@ (i :> 1)

Init ==
    /\ PlanIdle
    /\ CfgIdle
    /\ InfoIdle
    /\ pc = "validate"
    /\ POLL \in BOOLEAN
    /\ WORKERS \in (0 - 1)..MaxWorkers
    /\ IS_LINUX \in BOOLEAN
    /\ dirStatus = "unknown"
    /\ testFiles = <<>>
    /\ estimates = EmptyMap
    /\ queue = <<>>
    /\ numWorkers = 0
    /\ started = 0
    /\ procs = EmptyMap
    /\ settled = EmptyMap
    /\ completedTests = 0
    /\ results = <<>>
    /\ exitCalls = <<>>
    /\ exitPath = "none"
    /\ attempts = EmptyMap
    /\ runLog = {}
    /\ helpers = EmptyMap
    /\ runners = EmptyMap
    /\ taken = <<>>
    /\ progress = {}

ExitAndGoOn(code, path) ==
    /\ pc' = pc
    /\ exitCalls' = Append(exitCalls, code)
    /\ exitPath' = path
Exit(code, path) ==
    /\ pc' = "exit"
    /\ exitCalls' = Append(exitCalls, code)
    /\ exitPath' = path

\* fileUtils.ts:12-28, called at index.ts:95
ValidateDir ==
    /\ pc = "validate"
    /\ \E status \in {"directory", "notDirectory", "missing"} :
         /\ dirStatus' = status
         /\ IF DirAccepted(status)
            THEN pc' = "collect" /\ UNCHANGED <<exitCalls, exitPath>>
            ELSE Exit(1, "validateDir")
    /\ UNCHANGED <<POLL, WORKERS, IS_LINUX, testFiles, estimates, queue,
                   numWorkers, started, procs, settled, completedTests, results,
                   attempts, runLog, helpers, runners>>
    /\ UNCHANGED <<taken, progress>>
    /\ UNCHANGED idleInRun

\* fileUtils.ts:56-66, called at index.ts:96, and index.ts:97-115. The files
\* are named by their place in the traversal order. process.exit(1) ends the
\* run on an empty list, before the totalTests === 0 test of index.ts:112.
CollectTestFiles ==
    /\ pc = "collect"
    /\ \E n \in 0..MaxRunFiles :
         LET found == [k \in 1..n |-> k] IN
         IF NoTestFiles(found)
         THEN Exit(1, "collectTestFiles") /\ UNCHANGED <<testFiles, attempts>>
         ELSE /\ testFiles' = found
              /\ attempts' = [f \in 1..n |-> 0]
              /\ IF Len(found) = 0
                 THEN Exit(0, "noTests")
                 ELSE pc' = "mode" /\ UNCHANGED <<exitCalls, exitPath>>
    /\ UNCHANGED <<POLL, WORKERS, IS_LINUX, dirStatus, estimates, queue,
                   numWorkers, started, procs, settled, completedTests, results,
                   runLog, helpers, runners>>
    /\ UNCHANGED <<taken, progress>>
    /\ UNCHANGED idleInRun

\* index.ts:121-123: the files getFileInfo returned an entry for, in order.
RECURSIVE WeightedEntriesStopAtNull(_, _)
WeightedEntriesStopAtNull(files, est) ==
    IF files = <<>> \/ est[Head(files)] = <<>> THEN <<>>
    ELSE <<[file |-> Head(files), weight |-> est[Head(files)][1]]>>
         \o WeightedEntriesStopAtNull(Tail(files), est)
RECURSIVE WeightedEntries(_, _)
WeightedEntries(files, est) ==
    IF files = <<>> THEN <<>>
    ELSE (IF est[Head(files)] = <<>> THEN <<>>
          ELSE <<[file |-> Head(files), weight |-> est[Head(files)][1]]>>)
         \o WeightedEntries(Tail(files), est)

\* envUtils.ts:53 and 55: getConfig's COMMAND and BASE_DISPLAY_NUMBER when
\* the environment sets neither.
COMMAND == "npx cypress run"
BASE_DISPLAY_NUMBER == 99

\* The path of a discovered file.
FilePath(f) == "e2e/" \o ToString(f) \o ".cy.ts"

\* index.ts:130 and 235: the display of worker index.
DisplayShared(index) == BASE_DISPLAY_NUMBER
Display(index) == BASE_DISPLAY_NUMBER + index

\* cypressRunner.ts:39: tests.join(',')
JoinFirstOnly(tests) == IF tests = <<>> THEN "" ELSE FilePath(Head(tests))
RECURSIVE Join(_)
Join(tests) ==
    IF tests = <<>> THEN ""
    ELSE IF Len(tests) = 1 THEN FilePath(Head(tests))
    ELSE FilePath(Head(tests)) \o "," \o Join(Tail(tests))

\* cypressRunner.ts:48
CypressCommand(command, tests) == command \o " --spec \"" \o Join(tests) \o "\""

\* cypressRunner.ts:34-37: what runCypress adds to process.env.
RunnerEnvAlways(display) == [DISPLAY |-> ":" \o ToString(display)]
RunnerEnv(display) ==
    IF IS_LINUX THEN [DISPLAY |-> ":" \o ToString(display)] ELSE EmptyMap

\* cypressRunner.ts:39-53: the spawn of the runner.
SpawnRunner(tests, display, command) ==
    <<[command |-> CypressCommand(command, tests), env |-> RunnerEnv(display)]>>

\* cypressRunner.ts:26-53: a runCypress call up to its first await: of
\* startXvfb where IS_LINUX, of the spawned runner's exit elsewhere. The
\* caller passes the display of its index and COMMAND (index.ts:130-136 and
\* 235-242).
Invoked(index, tests, hasFailed) ==
    [st |-> IF IS_LINUX THEN "xvfb" ELSE "running", tests |-> tests,
     hasFailed |-> hasFailed, display |-> Display(index),
     spawned |-> IF IS_LINUX THEN <<>>
                 ELSE SpawnRunner(tests, Display(index), COMMAND)]

\* index.ts:117-162: weighted bucketing mode up to the await of Promise.all.
\* Every non-empty bucket's callback runs to the first await of runCypress.
StartWeighted ==
    /\ pc = "mode"
    /\ ~POLL
    /\ \E est \in [Files -> {<<>>} \cup {<<w>> : w \in 1..MaxRunWeight}] :
         LET plan == GetFileBucketsCustom(WORKERS, WeightedEntries(testFiles, est))
             live == LiveBuckets(plan.buckets)
             spawned == UNION {{plan.buckets[i][k] : k \in 1..Len(plan.buckets[i])} :
                                 i \in live}
         IN  /\ estimates' = est
             /\ IF plan.threw
                \* the rejection of runParallelCypress's promise: index.ts:328-332
                THEN /\ Exit(1, "unhandledRejection")
                     /\ UNCHANGED <<procs, attempts, helpers, runners>>
                ELSE /\ procs' = [i \in live |-> Invoked(i, plan.buckets[i], FALSE)]
                     /\ attempts' = [f \in Files |->
                                       attempts[f] + (IF f \in spawned THEN 1 ELSE 0)]
                     /\ helpers' = [i \in live |-> IF IS_LINUX THEN 1 ELSE 0]
                     /\ runners' = [i \in live |-> IF IS_LINUX THEN 0 ELSE 1]
                     /\ pc' = "await"
                     /\ UNCHANGED <<exitCalls, exitPath>>
    /\ UNCHANGED <<POLL, WORKERS, IS_LINUX, dirStatus, testFiles, queue,
                   numWorkers, started, settled, completedTests, results, runLog>>
    /\ UNCHANGED <<taken, progress>>
    /\ UNCHANGED idleInRun

\* cypressRunner.ts:31-53: startXvfb resolved; the runner is spawned and the
\* call awaits its exit. In either mode.
XvfbStarted ==
    /\ pc = "await"
    /\ \E i \in DOMAIN procs :
         /\ procs[i].st = "xvfb"
         /\ procs' = [procs EXCEPT
                       ![i].st = "running",
                       ![i].spawned = SpawnRunner(procs[i].tests,
                                                  procs[i].display, COMMAND)]
         /\ runners' = Bump(runners, i)
    /\ UNCHANGED <<pc, POLL, WORKERS, IS_LINUX, dirStatus, testFiles, estimates,
                   queue, numWorkers, started, settled, completedTests, results,
                   exitCalls, exitPath, attempts, runLog, helpers>>
    /\ UNCHANGED <<taken, progress>>
    /\ UNCHANGED idleInRun

\* index.ts:136-158: a bucket's runCypress call completed and its callback
\* returns.
BucketRunnerExit ==
    /\ pc = "await"
    /\ ~POLL
    /\ \E i \in DOMAIN procs :
         /\ procs[i].st \in {"xvfb", "running"}
         /\ \E o \in OutcomesAt(procs[i].st) :
              LET completion == RunCypress(i, o)
                  result == BucketResult(i, completion)
                  fulfilled == ~completion.threw /\ result.status = "fulfilled"
              IN  /\ completedTests' = IF fulfilled
                                       THEN completedTests + Len(procs[i].tests)
                                       ELSE completedTests
                  /\ progress' = IF fulfilled
                                  THEN progress \cup LogProgress(completedTests',
                                                                 Len(testFiles))
                                  ELSE progress
                  /\ procs' = [procs EXCEPT ![i].st = "done"]
                  /\ settled' = settled @@ (i :> result)
                  /\ runLog' = runLog \cup
                                 {[index |-> i, tests |-> procs[i].tests,
                                   outcome |-> o,
                                   display |-> procs[i].display,
                                   spawned |-> procs[i].spawned,
                                   result |-> Handed(i, completion)]}
    /\ UNCHANGED <<pc, POLL, WORKERS, IS_LINUX, dirStatus, testFiles, estimates,
                   queue, numWorkers, started, results, exitCalls, exitPath,
                   attempts, helpers, runners>>
    /\ UNCHANGED taken
    /\ UNCHANGED idleInRun

\* index.ts:161-188
AggregateWeighted ==
    /\ pc = "await"
    /\ ~POLL
    /\ AllSettled(procs, settled)
    /\ results' = InIndexOrder(settled, DOMAIN settled)
    /\ Exit(ExitCodeFor(results'), "aggregate")
    /\ UNCHANGED <<POLL, WORKERS, IS_LINUX, dirStatus, testFiles, estimates,
                   queue, numWorkers, started, procs, settled, completedTests,
                   attempts, runLog, helpers, runners>>
    /\ UNCHANGED <<taken, progress>>
    /\ UNCHANGED idleInRun

\* index.ts:199-204
StartPolling ==
    /\ pc = "mode"
    /\ POLL
    /\ numWorkers' = MinInt(WORKERS, Len(testFiles))
    /\ queue' = testFiles
    /\ pc' = "spawn"
    /\ UNCHANGED <<POLL, WORKERS, IS_LINUX, dirStatus, testFiles, estimates,
                   started, procs, settled, completedTests, results, exitCalls,
                   exitPath, attempts, runLog, helpers, runners>>
    /\ UNCHANGED <<taken, progress>>
    /\ UNCHANGED idleInRun

\* index.ts:213-242 and 266-277: worker i at the top of its loop, with the
\* workers' records ps. It takes a test and calls runCypress, up to that
\* call's first await, or leaves the loop and returns its result.
WorkerLoopStopsOnFailure(i, ps, hasFailed) ==
    LET t == TakeTest(queue) IN
    IF t.test = <<>> \/ hasFailed
    THEN /\ procs' = [ps EXCEPT ![i] =
                        [st |-> "done", tests |-> <<>>, hasFailed |-> hasFailed]]
         /\ settled' = settled @@ (i :> WorkerResult(i, hasFailed))
         /\ UNCHANGED <<queue, attempts, helpers, runners, taken>>
    ELSE /\ procs' = [ps EXCEPT ![i] = Invoked(i, t.test, hasFailed)]
         /\ queue' = t.rest
         /\ taken' = taken \o t.test
         /\ attempts' = [attempts EXCEPT ![t.test[1]] = @ + 1]
         /\ helpers' = IF IS_LINUX THEN Bump(helpers, i) ELSE helpers
         /\ runners' = IF IS_LINUX THEN runners ELSE Bump(runners, i)
         /\ UNCHANGED settled
WorkerLoop(i, ps, hasFailed) ==
    LET t == TakeTest(queue) IN
    IF t.test = <<>>
    THEN /\ procs' = [ps EXCEPT ![i] =
                        [st |-> "done", tests |-> <<>>, hasFailed |-> hasFailed]]
         /\ settled' = settled @@ (i :> WorkerResult(i, hasFailed))
         /\ UNCHANGED <<queue, attempts, helpers, runners, taken>>
    ELSE /\ procs' = [ps EXCEPT ![i] = Invoked(i, t.test, hasFailed)]
         /\ queue' = t.rest
         /\ taken' = taken \o t.test
         /\ attempts' = [attempts EXCEPT ![t.test[1]] = @ + 1]
         /\ helpers' = IF IS_LINUX THEN Bump(helpers, i) ELSE helpers
         /\ runners' = IF IS_LINUX THEN runners ELSE Bump(runners, i)
         /\ UNCHANGED settled

\* index.ts:281-283, one iteration: worker(i) runs to its first await.
StartWorker ==
    /\ pc = "spawn"
    /\ started < numWorkers
    /\ WorkerLoop(started,
                  procs @@ (started :> [st |-> "new", tests |-> <<>>,
                                        hasFailed |-> FALSE]),
                  FALSE)
    /\ started' = started + 1
    /\ UNCHANGED <<pc, POLL, WORKERS, IS_LINUX, dirStatus, testFiles, estimates,
                   numWorkers, completedTests, results, exitCalls, exitPath,
                   runLog, progress>>
    /\ UNCHANGED idleInRun

\* index.ts:281-286: the loop is over and the main function awaits Promise.all.
AwaitWorkers ==
    /\ pc = "spawn"
    /\ started >= numWorkers
    /\ pc' = "await"
    /\ UNCHANGED <<POLL, WORKERS, IS_LINUX, dirStatus, testFiles, estimates,
                   queue, numWorkers, started, procs, settled, completedTests,
                   results, exitCalls, exitPath, attempts, runLog, helpers,
                   runners>>
    /\ UNCHANGED <<taken, progress>>
    /\ UNCHANGED idleInRun

\* index.ts:237-264, then the top of the loop again: a worker's runCypress
\* call completed.
WorkerRunnerExit ==
    /\ pc = "await"
    /\ POLL
    /\ \E i \in DOMAIN procs :
         /\ procs[i].st \in {"xvfb", "running"}
         /\ \E o \in OutcomesAt(procs[i].st) :
              LET completion == RunCypress(i, o)
                  fulfilled == ~completion.threw
                                 /\ completion.value.status = "fulfilled"
              IN  /\ completedTests' = IF fulfilled
                                       THEN completedTests + 1 ELSE completedTests
                  /\ progress' = IF fulfilled
                                  THEN progress \cup LogProgress(completedTests',
                                                                 Len(testFiles))
                                  ELSE progress
                  /\ runLog' = runLog \cup
                                 {[index |-> i, tests |-> procs[i].tests,
                                   outcome |-> o,
                                   display |-> procs[i].display,
                                   spawned |-> procs[i].spawned,
                                   result |-> Handed(i, completion)]}
                  /\ WorkerLoop(i, procs, WorkerFlag(procs[i].hasFailed, completion))
    /\ UNCHANGED <<pc, POLL, WORKERS, IS_LINUX, dirStatus, testFiles, estimates,
                   numWorkers, started, results, exitCalls, exitPath>>
    /\ UNCHANGED idleInRun

\* index.ts:285-312
AggregatePolling ==
    /\ pc = "await"
    /\ POLL
    /\ AllSettled(procs, settled)
    /\ results' = InIndexOrder(settled, DOMAIN settled)
    /\ Exit(ExitCodeFor(results'), "aggregate")
    /\ UNCHANGED <<POLL, WORKERS, IS_LINUX, dirStatus, testFiles, estimates,
                   queue, numWorkers, started, procs, settled, completedTests,
                   attempts, runLog, helpers, runners>>
    /\ UNCHANGED <<taken, progress>>
    /\ UNCHANGED idleInRun

Next ==
    \/ ValidateDir
    \/ CollectTestFiles
    \/ StartWeighted
    \/ XvfbStarted
    \/ BucketRunnerExit
    \/ AggregateWeighted
    \/ StartPolling
    \/ StartWorker
    \/ AwaitWorkers
    \/ WorkerRunnerExit
    \/ AggregatePolling

Spec == Init /\ [][Next]_vars

\* The event loop runs every callback that is ready, and every runner and
\* every startXvfb is taken to end: no step stays possible for ever.
FairSpec == Init /\ [][Next]_vars /\ WF_vars(Next)

\* ============================================================== getConfig
\* envUtils.ts. A string is the sequence of its characters; a JavaScript
\* number is NaN or an integer.
NaN == [nan |-> TRUE]
Num(n) == [nan |-> FALSE, value |-> n]

DigitChars == <<"0", "1", "2", "3", "4", "5", "6", "7", "8", "9">>
DigitSet == {DigitChars[k] : k \in 1..Len(DigitChars)}
DigitValue(c) == (CHOOSE k \in 1..Len(DigitChars) : DigitChars[k] = c) - 1

\* parseInt(value, 10): leading white space is skipped, a sign is taken, and
\* the longest run of decimal digits that follows is the number; NaN when
\* that run is empty. What follows the digits is ignored.
RECURSIVE TrimStart(_)
TrimStart(t) ==
    IF t # <<>> /\ Head(t) = " " THEN TrimStart(Tail(t)) ELSE t
RECURSIVE DigitPrefix(_)
DigitPrefix(t) ==
    IF t # <<>> /\ Head(t) \in DigitSet
    THEN <<Head(t)>> \o DigitPrefix(Tail(t))
    ELSE <<>>
RECURSIVE Decimal(_)
Decimal(ds) ==
    IF ds = <<>> THEN 0
    ELSE Decimal(SubSeq(ds, 1, Len(ds) - 1)) * 10 + DigitValue(ds[Len(ds)])
ParseInt(text) ==
    LET t == TrimStart(text)
        signed == t # <<>> /\ Head(t) \in {"-", "+"}
        ds == DigitPrefix(IF signed THEN Tail(t) ELSE t)
    IN  IF ds = <<>> THEN NaN
        ELSE Num(IF signed /\ Head(t) = "-" THEN 0 - Decimal(ds) ELSE Decimal(ds))

\* Math.min on two numbers.
MathMin(a, b) ==
    IF a.nan \/ b.nan THEN NaN ELSE Num(MinInt(a.value, b.value))

TrueText == <<"t", "r", "u", "e">>
Unset == [set |-> FALSE]

\* envUtils.ts:22-40; kind is typeof defaultValue.
GetEnvVarNoFallback(entry, defaultValue, kind) ==
    IF ~entry.set THEN defaultValue
    ELSE IF kind = "number" THEN ParseInt(entry.text)
    ELSE IF kind = "boolean" THEN entry.text = TrueText
    ELSE entry.text
GetEnvVar(entry, defaultValue, kind) ==
    IF ~entry.set THEN defaultValue
    ELSE IF kind = "number"
         THEN LET parsed == ParseInt(entry.text) IN
              IF parsed.nan THEN defaultValue ELSE parsed
    ELSE IF kind = "boolean" THEN entry.text = TrueText
    ELSE entry.text

\* envUtils.ts:51, n being os.cpus().length
EffectiveWorkersUnclamped(e, n) == GetEnvVar(e["WORKERS"], Num(n), "number")
EffectiveWorkers(e, n) ==
    MathMin(GetEnvVar(e["WORKERS"], Num(n), "number"), Num(n))

\* envUtils.ts:46-57
GetConfig(e, n) ==
    [WEIGHT_PER_TEST |-> GetEnvVar(e["WEIGHT_PER_TEST"], Num(1), "number"),
     BASE_WEIGHT |-> GetEnvVar(e["BASE_WEIGHT"], Num(1), "number"),
     WORKERS |-> EffectiveWorkers(e, n),
     DIR |-> GetEnvVar(e["DIR"], "cypress/e2e", "string"),
     COMMAND |-> GetEnvVar(e["COMMAND"], "npx cypress run", "string"),
     POLL |-> GetEnvVar(e["POLL"], FALSE, "boolean"),
     BASE_DISPLAY_NUMBER |-> GetEnvVar(e["BASE_DISPLAY_NUMBER"], Num(99), "number")]

NumericKeys == {"WEIGHT_PER_TEST", "BASE_WEIGHT", "WORKERS", "BASE_DISPLAY_NUMBER"}
EnvKeys == NumericKeys \cup {"DIR", "COMMAND", "POLL"}

\* The values an environment variable is given: every string of at most
\* MaxTextLen characters of EnvChars, and "true".
EnvChars == {"1", "7", "-", " ", "x"}
EnvTexts == UNION {[1..n -> EnvChars] : n \in 0..MaxTextLen} \cup {TrueText}

\* The environment of the process: nothing is set yet; the host has 1..MaxCpus
\* CPUs.
CfgInit ==
    /\ PlanIdle
    /\ RunIdle
    /\ InfoIdle
    /\ env = [k \in EnvKeys |-> Unset]
    /\ cpus \in 1..MaxCpus
    /\ config = <<>>

\* One variable is set in the environment before the program starts; the
\* variables are read one by one and independently (envUtils.ts:26), so one
\* at a time is exercised.
SetEnv ==
    /\ config = <<>>
    /\ \A k \in EnvKeys : ~env[k].set
    /\ \E k \in EnvKeys, text \in EnvTexts :
         env' = [env EXCEPT ![k] = [set |-> TRUE, text |-> text]]
    /\ UNCHANGED <<cpus, config>>
    /\ UNCHANGED <<planVars, runVars, infoVars>>

\* envUtils.ts:46-57: the call of getConfig.
GetConfigCall ==
    /\ config = <<>>
    /\ config' = <<GetConfig(env, cpus)>>
    /\ UNCHANGED <<env, cpus>>
    /\ UNCHANGED <<planVars, runVars, infoVars>>

CfgNext == SetEnv \/ GetConfigCall

CfgSpec == CfgInit /\ [][CfgNext]_vars

\* ============================================================ getFileInfo
\* weightUtils.ts and isCallTo. The parsed file is the list of its call
\* expressions in source order, each with its callee and the number of call
\* expressions around it; visit reaches them in that order.
NoObject == ""
Identifier(name) == [form |-> "identifier", name |-> name]
PropertyAccess(object, name) ==
    [form |-> "property", object |-> object, name |-> name]

\* part_005:9-26, for a call expression with the callee given.
IsCallTo(callee, objectName, methodName) ==
    IF callee.form = "property"
    THEN callee.object = objectName /\ callee.name = methodName
    ELSE objectName = NoObject /\ callee.name = methodName

\* The callees of the files: describe(), describe.skip(), it(), it.skip()
\* and a call that declares nothing, cy.visit().
Callees ==
    {Identifier("describe"), PropertyAccess("describe", "skip"),
     Identifier("it"), PropertyAccess("it", "skip"),
     PropertyAccess("cy", "visit")}

\* The nestings of n call expressions in source order: a node is at most one
\* deeper than the node before it.
Nestings(n) ==
    {d \in [1..n -> 0..(n - 1)] :
        /\ n >= 1 => d[1] = 0
        /\ \A k \in 1..(n - 1) : d[k + 1] <= d[k] + 1}
SourcesOf(n) ==
    {[k \in 1..n |-> [callee |-> c[k], depth |-> d[k]]] :
        c \in [1..n -> Callees], d \in Nestings(n)}
Sources == UNION {SourcesOf(n) : n \in 0..MaxNodes}

\* weightUtils.ts:51: skippedDescribeStack.includes(true)
LastIsTrue(stack) == stack # <<>> /\ stack[Len(stack)]
IncludesTrue(stack) == \E k \in 1..Len(stack) : stack[k]

\* weightUtils.ts:40-46: the stack after the describe checks.
PushDescribe(stack, callee) ==
    IF IsCallTo(callee, "describe", "skip") THEN Append(stack, TRUE)
    ELSE IF IsCallTo(callee, NoObject, "describe") THEN Append(stack, FALSE)
    ELSE stack
IsEnteringDescribe(callee) ==
    IsCallTo(callee, "describe", "skip") \/ IsCallTo(callee, NoObject, "describe")

\* weightUtils.ts:49-55: what the call adds to testCount.
CountedTests(stack, callee) ==
    IF IsCallTo(callee, NoObject, "it.skip") \/ IsCallTo(callee, NoObject, "it")
    THEN LET isSkippedIt == IsCallTo(callee, NoObject, "it.skip")
             isSkipped == IncludesTrue(stack) \/ isSkippedIt
         IN  IF ~isSkipped THEN 1 ELSE 0
    ELSE 0

\* weightUtils.ts:70-71
WeightForNoBase(baseWeight, weightPerTest, count) ==
    IF count > 0 THEN weightPerTest * count ELSE baseWeight
WeightFor(baseWeight, weightPerTest, count) ==
    IF count > 0 THEN baseWeight + weightPerTest * count ELSE baseWeight

InfoInit ==
    /\ PlanIdle
    /\ RunIdle
    /\ CfgIdle
    /\ source \in Sources
    /\ position = 1
    /\ frames = <<>>
    /\ skippedDescribeStack = <<>>
    /\ testCount = 0
    /\ params = <<>>
    /\ info = <<>>
    /\ infoPc = "read"

\* weightUtils.ts:20-32 and 77-80: the file is read and parsed, or reading it
\* throws and getFileInfo returns null.
ReadFile ==
    /\ infoPc = "read"
    /\ \E readable \in BOOLEAN :
         IF readable
         THEN infoPc' = "visit" /\ UNCHANGED info
         ELSE infoPc' = "done" /\ info' = <<[null |-> TRUE]>>
    /\ UNCHANGED <<source, position, frames, skippedDescribeStack, testCount,
                   params>>
    /\ UNCHANGED <<planVars, runVars, cfgVars>>

\* weightUtils.ts:35-59: visit is called on the next call expression, which
\* is a child of the one visit is in, and runs up to its forEachChild.
VisitEnter ==
    /\ infoPc = "visit"
    /\ position <= Len(source)
    /\ frames # <<>> => source[position].depth > frames[Len(frames)].depth
    /\ LET node == source[position] IN
       /\ skippedDescribeStack' = PushDescribe(skippedDescribeStack, node.callee)
       /\ testCount' = testCount + CountedTests(skippedDescribeStack', node.callee)
       /\ frames' = Append(frames,
                           [depth |-> node.depth,
                            isEnteringDescribe |-> IsEnteringDescribe(node.callee)])
    /\ position' = position + 1
    /\ UNCHANGED <<source, params, info, infoPc>>
    /\ UNCHANGED <<planVars, runVars, cfgVars>>

\* weightUtils.ts:59-64: forEachChild has no child left and visit returns.
VisitLeave ==
    /\ infoPc = "visit"
    /\ frames # <<>>
    /\ position <= Len(source) => source[position].depth <= frames[Len(frames)].depth
    /\ skippedDescribeStack' =
         IF frames[Len(frames)].isEnteringDescribe
         THEN SubSeq(skippedDescribeStack, 1, Len(skippedDescribeStack) - 1)
         ELSE skippedDescribeStack
    /\ frames' = SubSeq(frames, 1, Len(frames) - 1)
    /\ UNCHANGED <<source, position, testCount, params, info, infoPc>>
    /\ UNCHANGED <<planVars, runVars, cfgVars>>

\* weightUtils.ts:67-76: the traversal is over; the weight is computed from
\* the arguments baseWeight and weightPerTest, which are read only here.
ReturnInfo ==
    /\ infoPc = "visit"
    /\ frames = <<>>
    /\ position > Len(source)
    /\ \E baseWeight, weightPerTest \in (0 - 1)..MaxParam :
         /\ params' = <<baseWeight, weightPerTest>>
         /\ info' = <<[null |-> FALSE, file |-> "filePath",
                       weight |-> WeightFor(baseWeight, weightPerTest, testCount)]>>
    /\ infoPc' = "done"
    /\ UNCHANGED <<source, position, frames, skippedDescribeStack, testCount>>
    /\ UNCHANGED <<planVars, runVars, cfgVars>>

InfoNext == ReadFile \/ VisitEnter \/ VisitLeave \/ ReturnInfo

InfoSpec == InfoInit /\ [][InfoNext]_vars

\* ===================================================== planner properties
WeightOf(f) == filesInfo[f].weight
BucketFileWeights(i) == [p \in 1..Len(buckets[i]) |-> WeightOf(buckets[i][p])]
\* A bucket's weight: the sum of the weights of the files placed in it.
BucketWeight(i) == SumSeq(BucketFileWeights(i))
Slots == UNION {{<<i, p>> : p \in 1..Len(buckets[i])} : i \in DOMAIN buckets}
Occurrences(f) == Cardinality({s \in Slots : buckets[s[1]][s[2]] = f})
InputWeights == [i \in 1..Len(filesInfo) |-> filesInfo[i].weight]
PlanDone == planPc = "done" /\ bucketsCount >= 1

\* C1: when getFileBucketsCustom returns for B >= 1, there are B buckets,
\* every input file occurs in exactly one slot of exactly one bucket, no
\* other file occurs, and the bucket weights sum to the input weights.
C1_PartitionConservesWeight ==
    PlanDone =>
        /\ DOMAIN buckets = 0..(bucketsCount - 1)
        /\ \A f \in 1..Len(filesInfo) : Occurrences(f) = 1
        /\ \A s \in Slots : buckets[s[1]][s[2]] \in 1..Len(filesInfo)
        /\ SumOver([i \in DOMAIN buckets |-> BucketWeight(i)], DOMAIN buckets)
             = SumSeq(InputWeights)
        /\ \A i \in DOMAIN buckets : bucketWeights[i] = BucketWeight(i)

C1_Witness ==
    /\ PlanDone
    /\ bucketsCount >= 2
    /\ Len(filesInfo) >= 4
    /\ \E i, j \in DOMAIN buckets : i # j /\ Len(buckets[i]) >= 2 /\ Len(buckets[j]) >= 1

IsPermutationOf(s, t) ==
    /\ Len(s) = Len(t)
    /\ \A x \in {t[i] : i \in 1..Len(t)} :
         Cardinality({i \in 1..Len(s) : s[i] = x})
           = Cardinality({i \in 1..Len(t) : t[i] = x})

\* C2: the files are processed in descending weight order (sortedFiles is a
\* rearrangement of the input with non-increasing weights), and each step of
\* the loop appends the next file to a bucket whose running total is minimal,
\* the lowest-indexed one among the minimal, and adds the file's weight to
\* that bucket's running total, leaving the other buckets alone.
C2_GreedyPlacement ==
    /\ [](planPc \in {"place", "done"} =>
            /\ IsPermutationOf(sortedFiles, filesInfo)
            /\ \A a, b \in 1..Len(sortedFiles) :
                 a < b => sortedFiles[a].weight >= sortedFiles[b].weight)
    /\ [][(planPc = "place" /\ cursor <= Len(sortedFiles) /\ bucketsCount >= 1) =>
            \E k \in DOMAIN buckets :
                /\ \A j \in DOMAIN buckets : bucketWeights[k] <= bucketWeights[j]
                /\ \A j \in DOMAIN buckets : j < k => bucketWeights[j] > bucketWeights[k]
                /\ buckets' = [buckets EXCEPT ![k] = Append(@, sortedFiles[cursor].file)]
                /\ bucketWeights' =
                     [bucketWeights EXCEPT ![k] = @ + sortedFiles[cursor].weight]
                /\ cursor' = cursor + 1]_vars

\* A placement, after earlier ones, that has to break a tie between several
\* buckets holding the same non-zero minimal total.
C2_Witness ==
    /\ planPc = "place"
    /\ cursor >= 3
    /\ cursor <= Len(sortedFiles)
    /\ sortedFiles[1].weight > sortedFiles[cursor].weight
    /\ \E i, j \in DOMAIN bucketWeights :
         /\ 0 < i /\ i < j
         /\ bucketWeights[i] = bucketWeights[j]
         /\ bucketWeights[i] > 0
         /\ \A k \in DOMAIN bucketWeights : bucketWeights[i] <= bucketWeights[k]

\* C3: for B = 2 and weights 10, 9, 8, 1 the result is bucket 0 = [10, 1]
\* with total 11 and bucket 1 = [9, 8] with total 17.
C3_WorkedExample ==
    (planPc = "done" /\ bucketsCount = 2 /\ InputWeights \in ExampleInputs) =>
        /\ BucketFileWeights(0) = <<10, 1>>
        /\ BucketFileWeights(1) = <<9, 8>>
        /\ bucketWeights = (0 :> 11) @@ (1 :> 17)
        /\ InputWeights = ExampleWeights =>
             buckets = (0 :> <<1, 4>>) @@ (1 :> <<2, 3>>)

C3_Witness ==
    /\ planPc = "done"
    /\ bucketsCount = 2
    /\ InputWeights = ExampleWeights
    /\ buckets[0] = <<1, 4>>

\* The optimal makespan: the least, over all ways of putting the files into
\* n buckets, of the heaviest bucket's total. Buckets are interchangeable, so
\* a file goes to a bucket already in use or to the first unused one.
RECURSIVE BestMakespan(_, _, _, _)
BestMakespan(ws, k, loads, n) ==
    IF k > Len(ws) THEN MaxOf({loads[i] : i \in 0..(n - 1)})
    ELSE LET used == Cardinality({i \in 0..(n - 1) : loads[i] > 0})
             last == IF used < n THEN used ELSE n - 1
         IN  MinOf({BestMakespan(ws, k + 1, [loads EXCEPT ![i] = @ + ws[k]], n) :
                      i \in 0..last})
OptMakespan == BestMakespan(InputWeights, 1, ZeroWeights(bucketsCount), bucketsCount)
Makespan == MaxOf({bucketWeights[i] : i \in DOMAIN bucketWeights})

\* C4: for positive weights and B >= 1 the heaviest bucket is within the
\* factor 4/3 - 1/(3B) of the optimal makespan.
C4_MakespanBound ==
    (PlanDone /\ \A i \in 1..Len(filesInfo) : filesInfo[i].weight > 0) =>
        3 * bucketsCount * Makespan <= (4 * bucketsCount - 1) * OptMakespan

\* A run where the greedy result is strictly worse than the optimum.
C4_Witness ==
    /\ PlanDone
    /\ Len(filesInfo) >= 1
    /\ Makespan > OptMakespan

\* ========================================================= run properties
Aggregated == pc = "exit" /\ exitPath = "aggregate"
SeqSet(q) == {q[k] : k \in 1..Len(q)}
NonZeroExit(result) == "code" \in DOMAIN result /\ result.code # 0

\* C5: in both modes, once the results are collected, the one exit code is 0
\* exactly when every collected result is fulfilled and 1 when some collected
\* result is rejected; the collected results are the workers' results.
C5_ExitCodeVerdict ==
    Aggregated =>
        /\ Len(exitCalls) = 1
        /\ exitCalls[1] \in {0, 1}
        /\ exitCalls[1] = 0 <=> \A k \in 1..Len(results) : results[k].status = "fulfilled"
        /\ (\E k \in 1..Len(results) : results[k].status = "rejected") => exitCalls[1] = 1
        /\ Len(results) = Cardinality(DOMAIN procs)
        /\ \A k \in 1..Len(results) :
             /\ results[k].index \in DOMAIN settled
             /\ results[k] = settled[results[k].index]

\* A verdict over several results, a rejected one followed by a fulfilled one.
C5_Witness ==
    /\ Aggregated
    /\ Len(results) >= 2
    /\ results[1].status = "rejected"
    /\ results[Len(results)].status = "fulfilled"
    /\ exitCalls = <<1>>

\* The files of the runCypress call worker i is waiting in.
Holding(i) ==
    IF procs[i].st \in {"xvfb", "running"} THEN SeqSet(procs[i].tests) ELSE {}
Places(f) ==
    Cardinality({k \in 1..Len(queue) : queue[k] = f})
      + Cardinality({i \in DOMAIN procs : f \in Holding(i)})
      + Cardinality({l \in runLog : f \in SeqSet(l.tests)})

\* C6: polling mode: no two workers hold the same file, no file is taken
\* twice, and every discovered file is in exactly one place: still in the
\* queue, held by one worker whose runCypress call is pending, or run by one worker.
C6_ExclusiveDequeue ==
    (POLL /\ pc \in {"spawn", "await", "exit"} /\ exitPath \in {"none", "aggregate"}) =>
        /\ \A i, j \in DOMAIN procs : i # j => Holding(i) \cap Holding(j) = {}
        /\ \A f \in Files : attempts[f] <= 1
        /\ \A f \in Files : Places(f) = 1
        /\ \A a, b \in runLog : a.tests = b.tests => a = b

\* Two workers hold files at once after at least one run has finished.
C6_Witness ==
    /\ POLL
    /\ pc = "await"
    /\ \E i, j \in DOMAIN procs :
         i # j /\ procs[i].st = "running" /\ procs[j].st = "running"
    /\ runLog # {}

\* C7 (as claimed): when the run ends with a verdict, every discovered file
\* was included in exactly one runner invocation.
C7_EveryFileAttemptedOnce ==
    Aggregated =>
        \A f \in Files :
            /\ attempts[f] = 1
            /\ Cardinality({l \in runLog : f \in SeqSet(l.tests)}) = 1

\* C8: polling mode: a worker that has returned reports rejected with code 1
\* exactly when one of its runCypress calls resolved rejected, and fulfilled
\* with code 0 otherwise.
C8_WorkerTerminalStatus ==
    POLL =>
        \A i \in DOMAIN settled :
            LET failed == \E l \in runLog : l.index = i /\ l.result.status = "rejected"
            IN  settled[i] = [status |-> IF failed THEN "rejected" ELSE "fulfilled",
                              index |-> i,
                              code |-> IF failed THEN 1 ELSE 0]

\* A worker returned after a rejected run followed by a fulfilled one.
C8_Witness ==
    /\ POLL
    /\ \E i \in DOMAIN settled :
         /\ settled[i].status = "rejected"
         /\ \E l \in runLog : l.index = i /\ l.result.status = "fulfilled"
                              /\ l.tests = <<Len(testFiles)>>
         /\ \E l \in runLog : l.index = i /\ l.result.status = "rejected"

\* C9 (as claimed): polling mode: the number of worker loops started is
\* min(WORKERS, number of discovered files), and each started worker got a
\* file to run.
C9_WorkersStarted ==
    (POLL /\ pc \in {"await", "exit"} /\ exitPath \in {"none", "aggregate"}) =>
        /\ Cardinality(DOMAIN procs) = MinInt(WORKERS, Len(testFiles))
        /\ started = MinInt(WORKERS, Len(testFiles))
        /\ \A i \in DOMAIN procs : \E f \in Files : attempts[f] = 1 /\ f = i + 1

\* C10: polling mode: a worker whose runner exited non-zero on some file has
\* its failure flag set from then on, returns rejected, and the exit code of
\* the run is 1, whatever the other runs did.
C10_FailedFileFailsRun ==
    POLL =>
        \A l \in runLog :
            NonZeroExit(l.result) =>
                /\ procs[l.index].hasFailed
                /\ l.index \in DOMAIN settled => settled[l.index].status = "rejected"
                /\ Aggregated => exitCalls = <<1>>

\* Three files, two workers: worker 0 ran files 1 and 3 with success, worker 1
\* ran file 2, whose runner exited non-zero; the run ended.
C10_Witness ==
    /\ POLL
    /\ Aggregated
    /\ Len(testFiles) = 3
    /\ DOMAIN procs = {0, 1}
    /\ \A f \in {1, 3} : \E l \in runLog :
         l.index = 0 /\ l.tests = <<f>> /\ l.result.status = "fulfilled"
    /\ \E l \in runLog : l.index = 1 /\ l.tests = <<2>> /\ NonZeroExit(l.result)
    /\ settled[0].status = "fulfilled"
    /\ exitCalls = <<1>>

\* The buckets the planner gives for the run's weighted entries.
PlannedBuckets ==
    GetFileBucketsCustom(WORKERS, WeightedEntries(testFiles, estimates)).buckets
WeightedStarted ==
    ~POLL /\ pc \in {"await", "exit"} /\ exitPath \in {"none", "aggregate"}

\* C11: weighted mode: exactly one runCypress call is made for each non-empty
\* bucket, with all the files of that bucket and at most one runner process;
\* an empty bucket gets no call, no process and no worker result.
C11_OneInvocationPerBucket ==
    WeightedStarted =>
        LET planned == PlannedBuckets IN
        /\ DOMAIN procs = {i \in DOMAIN planned : planned[i] # <<>>}
        /\ \A i \in DOMAIN procs :
             /\ procs[i].tests = planned[i]
             /\ \A f \in SeqSet(procs[i].tests) : attempts[f] = 1
             /\ helpers[i] = (IF IS_LINUX THEN 1 ELSE 0)
             /\ runners[i] <= 1
             /\ procs[i].st = "running" => runners[i] = 1
             /\ Cardinality({l \in runLog : l.index = i}) <= 1
        /\ \A l \in runLog : l.index \in DOMAIN procs /\ l.tests = planned[l.index]
        /\ \A i \in DOMAIN planned :
             planned[i] = <<>> =>
                 /\ i \notin DOMAIN settled
                 /\ i \notin DOMAIN helpers
                 /\ i \notin DOMAIN runners
                 /\ \A k \in 1..Len(results) : results[k].index # i

\* Three buckets were planned, one stayed empty, and the run ended with the
\* results of the two others.
C11_Witness ==
    /\ ~POLL
    /\ Aggregated
    /\ WORKERS = 3
    /\ PlannedBuckets[2] = <<>>
    /\ Len(results) = 2
    /\ \E l \in runLog : l.index = 1 /\ l.outcome.kind = "close"

\* C12: weighted mode has no fail-fast: a step that ends one worker leaves
\* every sibling as it was, a worker ends only by its own runCypress call
\* completing, and the verdict is reached only when every spawned worker has
\* contributed its own result.
C12_NoFailFast ==
    /\ [](WeightedStarted /\ pc = "exit" =>
            \A i \in DOMAIN procs :
                /\ procs[i].st = "done"
                /\ i \in DOMAIN settled
                /\ \E l \in runLog : l.index = i
                /\ \E k \in 1..Len(results) : results[k] = settled[i])
    /\ [][WeightedStarted =>
            \A j \in DOMAIN procs :
                (procs[j].st # "done" /\ procs'[j].st = "done") =>
                    /\ \E l \in runLog' \ runLog : l.index = j
                    /\ \A k \in DOMAIN procs \ {j} : procs'[k] = procs[k]]_vars

\* A worker has failed while a sibling's runner is still running.
C12_Witness ==
    /\ ~POLL
    /\ pc = "await"
    /\ \E i, j \in DOMAIN procs :
         /\ i \in DOMAIN settled
         /\ settled[i].status = "rejected"
         /\ procs[j].st = "running"

\* C13: a runCypress call whose runner closes with code 0 returns
\* {fulfilled, index, code 0}; one whose runner closes with another code
\* returns {rejected, index, code} with that code; the index returned is the
\* worker index of the call.
C13_RunnerExitResult ==
    \A l \in runLog :
        /\ l.result.index = l.index
        /\ l.index \in DOMAIN procs
        /\ (l.outcome.kind = "close" /\ l.outcome.code = 0) =>
               l.result = [status |-> "fulfilled", index |-> l.index, code |-> 0]
        /\ (l.outcome.kind = "close" /\ l.outcome.code # 0) =>
               l.result = [status |-> "rejected", index |-> l.index,
                           code |-> l.outcome.code]

\* Worker 1 ran two files: one runner closed with 0, the other was ended by
\* a signal.
C13_Witness ==
    \E a, b \in runLog :
        /\ a.index = 1 /\ b.index = 1
        /\ a.outcome = [kind |-> "close", code |-> 0]
        /\ b.outcome = [kind |-> "close", code |-> NullCode]
        /\ b.result.status = "rejected"

Errored(l) == l.outcome.kind \in {"error", "xvfbThrows"}

\* C14: a runCypress call whose runner emits 'error' (which includes a
\* runner that could not be spawned) or whose startXvfb rejects does not
\* throw: it returns {rejected, index} without a code. Its worker counts as
\* failed, the run exits 1, and the step changes no sibling worker; in
\* polling mode every file is still run.
C14_ErrorIsRejectedResult ==
    /\ [](\A l \in runLog :
            Errored(l) =>
                /\ l.result = [status |-> "rejected", index |-> l.index]
                /\ l.index \in DOMAIN settled =>
                       settled[l.index].status = "rejected"
                /\ Aggregated =>
                       /\ exitCalls = <<1>>
                       /\ \A j \in DOMAIN procs : j \in DOMAIN settled
                       /\ POLL => \A f \in Files :
                                     \E m \in runLog : m.tests = <<f>>)
    /\ [][\A l \in runLog' \ runLog :
            Errored(l) =>
                \A j \in DOMAIN procs \ {l.index} : procs'[j] = procs[j]]_vars

\* On Linux, worker 0's startXvfb rejected, worker 1's runner closed with 0
\* after that, and the run ended.
C14_Witness ==
    /\ Aggregated
    /\ IS_LINUX
    /\ \E l \in runLog : l.index = 0 /\ l.outcome.kind = "xvfbThrows"
    /\ \E l \in runLog : l.index = 1 /\ l.result.status = "fulfilled"
    /\ \E l \in runLog : l.outcome.kind = "error"
    /\ exitCalls = <<1>>

NothingSpawned ==
    /\ procs = EmptyMap
    /\ helpers = EmptyMap
    /\ runners = EmptyMap
    /\ runLog = {}
    /\ \A f \in DOMAIN attempts : attempts[f] = 0

\* C15: when the configured directory is missing or is not a directory, the
\* run has ended with the one exit code 1 at validateDir, no file was
\* discovered, and no Xvfb and no runner process was spawned.
C15_InvalidDirExits ==
    dirStatus \in {"notDirectory", "missing"} =>
        /\ pc = "exit"
        /\ exitCalls = <<1>>
        /\ exitPath = "validateDir"
        /\ testFiles = <<>>
        /\ attempts = EmptyMap
        /\ NothingSpawned

\* The path exists and is not a directory, on Linux with workers configured.
C15_Witness ==
    /\ dirStatus = "notDirectory"
    /\ IS_LINUX
    /\ WORKERS >= 1
    /\ pc = "exit"

\* C16: once discovery is over with no file found, the run has ended with
\* the one exit code 1, not 0, and no worker was spawned.
C16_NoFilesExits ==
    (dirStatus = "directory" /\ pc # "collect" /\ testFiles = <<>>) =>
        /\ pc = "exit"
        /\ exitCalls = <<1>>
        /\ exitPath = "collectTestFiles"
        /\ NothingSpawned

\* A valid directory without files, with workers configured.
C16_Witness ==
    /\ dirStatus = "directory"
    /\ exitPath = "collectTestFiles"
    /\ testFiles = <<>>
    /\ WORKERS >= 1
    /\ exitCalls = <<1>>

\* ====================================================== getConfig properties
\* A text that is the decimal writing of an integer, and that integer.
IsIntegerText(t) ==
    LET body == IF t # <<>> /\ Head(t) = "-" THEN Tail(t) ELSE t IN
    body # <<>> /\ \A k \in 1..Len(body) : body[k] \in DigitSet
IntegerOf(t) ==
    IF Head(t) = "-" THEN 0 - Decimal(Tail(t)) ELSE Decimal(t)

\* A text that starts, after white space, with an optionally signed digit.
StartsWithInteger(t) ==
    \E d \in 1..Len(t) :
        /\ t[d] \in DigitSet
        /\ \/ \A k \in 1..(d - 1) : t[k] = " "
           \/ /\ d >= 2
              /\ t[d - 1] \in {"-", "+"}
              /\ \A k \in 1..(d - 2) : t[k] = " "

\* C17: the WORKERS of getConfig's result is a number not above the CPU
\* count; it is min(v, cpuCount) when the variable is set to the integer v,
\* and cpuCount when the variable is not set.
C17_WorkersClamped ==
    config # <<>> =>
        LET w == config[1].WORKERS
            e == env["WORKERS"]
        IN  /\ ~w.nan
            /\ w.value <= cpus
            /\ ~e.set => w.value = cpus
            /\ (e.set /\ IsIntegerText(e.text)) =>
                   w.value = MinInt(IntegerOf(e.text), cpus)

\* WORKERS is set to 7 on a host with fewer CPUs.
C17_Witness ==
    /\ config # <<>>
    /\ env["WORKERS"] = [set |-> TRUE, text |-> <<"7">>]
    /\ cpus < 7
    /\ config[1].WORKERS = Num(cpus)

DefaultOf(k) ==
    IF k = "WORKERS" THEN cpus
    ELSE IF k = "BASE_DISPLAY_NUMBER" THEN 99
    ELSE 1

\* C18: each numeric variable of getConfig's result is an integer, never
\* NaN, and it is the variable's default when the environment value does not
\* start with an integer that parseInt can read.
C18_NumericFallback ==
    config # <<>> =>
        \A k \in NumericKeys :
            /\ ~config[1][k].nan
            /\ config[1][k].value \in Int
            /\ (env[k].set /\ ~StartsWithInteger(env[k].text)) =>
                   config[1][k].value = DefaultOf(k)
            /\ ~env[k].set => config[1][k].value = DefaultOf(k)

\* BASE_DISPLAY_NUMBER is set to a text with a digit after a letter.
C18_Witness ==
    /\ config # <<>>
    /\ env["BASE_DISPLAY_NUMBER"] = [set |-> TRUE, text |-> <<"x", "1">>]
    /\ config[1].BASE_DISPLAY_NUMBER = Num(99)

\* ==================================================== getFileInfo properties
\* Node q of the source encloses node p.
Encloses(q, p) ==
    /\ q < p
    /\ source[q].depth < source[p].depth
    /\ \A r \in (q + 1)..p : source[r].depth > source[q].depth
IsSuite(p) ==
    source[p].callee \in {Identifier("describe"), PropertyAccess("describe", "skip")}
IsSkippedSuite(p) == source[p].callee = PropertyAccess("describe", "skip")
IsCase(p) == source[p].callee \in {Identifier("it"), PropertyAccess("it", "skip")}
IsSkippedCase(p) == source[p].callee = PropertyAccess("it", "skip")
\* A test case that is not marked skipped and has no enclosing skipped suite.
IsActive(p) ==
    /\ IsCase(p)
    /\ ~IsSkippedCase(p)
    /\ ~\E q \in 1..Len(source) : IsSkippedSuite(q) /\ Encloses(q, p)
ActiveTests == Cardinality({p \in 1..Len(source) : IsActive(p)})
Returned == infoPc = "done" /\ ~info[1].null

\* C19: a getFileInfo call that returns an entry returns the weight
\* baseWeight when the file has no active test and
\* baseWeight + weightPerTest * (number of active tests) otherwise.
C19_WeightFormula ==
    Returned =>
        /\ info[1].file = "filePath"
        /\ info[1].weight =
             IF ActiveTests = 0 THEN params[1]
             ELSE params[1] + params[2] * ActiveTests

\* A file with two active tests, with baseWeight 1 and weightPerTest 2.
C19_Witness ==
    /\ Returned
    /\ ActiveTests = 2
    /\ params = <<1, 2>>
    /\ info[1].weight = 5

\* C20: the count of getFileInfo is, all through the traversal and at its
\* end, the number of the test cases visited so far that are not marked
\* skipped and are enclosed by no skipped suite, at any depth.
C20_ActiveTestCount ==
    /\ infoPc = "visit" =>
           /\ testCount = Cardinality({p \in 1..(position - 1) : IsActive(p)})
           /\ Len(skippedDescribeStack) =
                  Cardinality({k \in 1..Len(frames) : frames[k].isEnteringDescribe})
    /\ Returned => testCount = ActiveTests

\* A skipped suite with a nested suite holding a case, the count staying 0:
\* describe.skip(() => describe(() => it())).
C20_Witness ==
    /\ Returned
    /\ Len(source) = 3
    /\ IsSkippedSuite(1)
    /\ source[2].callee = Identifier("describe") /\ Encloses(1, 2)
    /\ source[3].callee = Identifier("it") /\ Encloses(2, 3)
    /\ testCount = 0

\* ------------------------------------------------------------ C21 .. C30
\* C21: weighted mode: a file for which getFileInfo returned null is in no
\* bucket and in no runner invocation, and the run goes on: every other file
\* is in exactly one started bucket, is passed to one invocation, and has
\* been run when the verdict is taken; with a worker configured the run ends
\* with a verdict.
C21_UnreadableFileSkipped ==
    /\ WeightedStarted =>
           \A f \in Files :
               IF estimates[f] = <<>>
               THEN /\ attempts[f] = 0
                    /\ \A i \in DOMAIN procs : f \notin SeqSet(procs[i].tests)
               ELSE /\ attempts[f] = 1
                    /\ Cardinality({i \in DOMAIN procs :
                                      f \in SeqSet(procs[i].tests)}) = 1
                    /\ Aggregated => \E l \in runLog : f \in SeqSet(l.tests)
    /\ (~POLL /\ WORKERS >= 1 /\ pc = "exit" /\ testFiles # <<>>) =>
           exitPath = "aggregate"

\* Of three files the first could not be read; the two others were run and
\* the run ended with exit code 0.
C21_Witness ==
    /\ ~POLL
    /\ Aggregated
    /\ Len(testFiles) = 3
    /\ estimates[1] = <<>>
    /\ \A f \in {2, 3} : \E l \in runLog :
         f \in SeqSet(l.tests) /\ l.result.status = "fulfilled"
    /\ exitCalls = <<0>>

\* C23: a runCypress call of worker index i is given the display
\* BASE_DISPLAY_NUMBER + i, and two calls that are pending at the same time
\* have different displays, in both modes.
C23_DisplayPerWorker ==
    /\ \A i \in DOMAIN procs :
         procs[i].st \in {"xvfb", "running"} =>
             procs[i].display = BASE_DISPLAY_NUMBER + i
    /\ \A i, j \in DOMAIN procs :
         (i # j /\ procs[i].st \in {"xvfb", "running"}
                /\ procs[j].st \in {"xvfb", "running"}) =>
             procs[i].display # procs[j].display
    /\ \A l \in runLog : l.display = BASE_DISPLAY_NUMBER + l.index

\* Polling mode: workers 0 and 1 have runners running on displays 99 and
\* 100, worker 1 for its second file.
C23_Witness ==
    /\ POLL
    /\ DOMAIN procs = {0, 1}
    /\ procs[0].st = "running" /\ procs[0].display = 99
    /\ procs[1].st = "running" /\ procs[1].display = 100
    /\ \E l \in runLog : l.index = 1

RunnersOf(count, i) == IF i \in DOMAIN count THEN count[i] ELSE 0

\* C24: on Linux a runner is spawned only by the step in which the call's
\* await of startXvfb resolves, after an Xvfb was spawned for that call, and
\* its environment has DISPLAY = ":<display>"; elsewhere no Xvfb is spawned
\* and the runner's environment gets no DISPLAY.
C24_DisplayBeforeRunner ==
    /\ [](\A i \in DOMAIN procs :
            (procs[i].st = "running") =>
                IF IS_LINUX
                THEN /\ runners[i] >= 1
                     /\ helpers[i] >= runners[i]
                     /\ procs[i].spawned[1].env =
                          [DISPLAY |-> ":" \o ToString(BASE_DISPLAY_NUMBER + i)]
                ELSE /\ RunnersOf(helpers, i) = 0
                     /\ "DISPLAY" \notin DOMAIN procs[i].spawned[1].env)
    /\ [](~IS_LINUX => \A i \in DOMAIN helpers : helpers[i] = 0)
    /\ [][IS_LINUX =>
            \A i \in DOMAIN runners' :
                RunnersOf(runners', i) > RunnersOf(runners, i) =>
                    /\ i \in DOMAIN procs
                    /\ procs[i].st = "xvfb"
                    /\ RunnersOf(helpers, i) >= RunnersOf(runners', i)]_vars

\* Linux, polling mode: worker 1's second runner is running with DISPLAY :100
\* after a second Xvfb was spawned for it.
C24_Witness ==
    /\ IS_LINUX
    /\ POLL
    /\ 1 \in DOMAIN procs
    /\ procs[1].st = "running"
    /\ helpers[1] = 2
    /\ procs[1].spawned[1].env = [DISPLAY |-> ":100"]

\* C25 (as claimed): once a worker has returned, no Xvfb process spawned for
\* it is left running. helpers counts the Xvfb processes spawned for a
\* worker; no statement of the program ends one (xvfb.ts detaches and unrefs
\* it), so each of them is still running as far as the program goes.
C25_HelperTornDown ==
    \A i \in DOMAIN procs :
        procs[i].st = "done" => RunnersOf(helpers, i) = 0

\* C26: polling mode: the k-th dequeue of the run returned the k-th
\* discovered file, and the queue holds the files after those, in order.
C26_QueueOrder ==
    (POLL /\ pc \in {"spawn", "await", "exit"}
          /\ exitPath \in {"none", "aggregate"}) =>
        /\ Len(taken) <= Len(testFiles)
        /\ \A k \in 1..Len(taken) : taken[k] = testFiles[k]
        /\ queue = SubSeq(testFiles, Len(taken) + 1, Len(testFiles))

\* The third file was dequeued by the worker of the second file, whose
\* runner ended while the runner of the first file is still running.
C26_Witness ==
    /\ POLL
    /\ taken = <<1, 2, 3>>
    /\ procs[0].st = "running" /\ procs[0].tests = <<1>>
    /\ procs[1].st = "running" /\ procs[1].tests = <<3>>
    /\ \E l \in runLog : l.tests = <<2>>

\* C22 (as claimed): the weight of every entry getFileInfo returns is a
\* positive integer and is at least baseWeight, for the BASE_WEIGHT and
\* WEIGHT_PER_TEST that getConfig can return, which are any integers.
C22_PositiveWeight ==
    Returned =>
        /\ info[1].weight \in Nat
        /\ info[1].weight >= 1
        /\ info[1].weight >= params[1]

\* C27 (as claimed): polling mode: once the queue is filled its length never
\* grows, and, every pending call completing in the end, the queue becomes
\* empty and every worker returns.
C27_QueueDrains ==
    /\ [][(POLL /\ pc \in {"spawn", "await"}) => Len(queue') <= Len(queue)]_vars
    /\ (POLL /\ pc = "spawn") ~>
           (queue = <<>> /\ \A i \in DOMAIN procs : procs[i].st = "done")

\* C28: while the runner of some call has not exited (or its startXvfb has
\* not resolved), the run has not aggregated and process.exit has not been
\* called, in either mode, whatever the other workers did.
C28_NoTimeout ==
    (\E i \in DOMAIN procs : procs[i].st \in {"xvfb", "running"}) =>
        /\ pc # "exit"
        /\ exitCalls = <<>>
        /\ results = <<>>

\* One runner is still running while every other worker has returned, one of
\* them failed; nothing has exited.
C28_Witness ==
    /\ pc = "await"
    /\ Cardinality(DOMAIN procs) >= 2
    /\ \E i \in DOMAIN procs :
         /\ procs[i].st = "running"
         /\ \A j \in DOMAIN procs \ {i} : procs[j].st = "done"
         /\ \E j \in DOMAIN settled : settled[j].status = "rejected"
    /\ exitCalls = <<>>

RECURSIVE CommaList(_)
CommaList(tests) ==
    IF tests = <<>> THEN ""
    ELSE IF Len(tests) = 1 THEN FilePath(tests[1])
    ELSE CommaList(SubSeq(tests, 1, Len(tests) - 1))
           \o "," \o FilePath(tests[Len(tests)])
CommandFor(tests) == "npx cypress run --spec \"" \o CommaList(tests) \o "\""

\* C30: every runner is spawned with the command COMMAND --spec "<list>",
\* the list being the files of the call joined by commas in their order: the
\* files of the worker's bucket in weighted mode, the one dequeued file in
\* polling mode.
C30_CommandLine ==
    LET planned == PlannedBuckets IN
    /\ \A i \in DOMAIN procs :
         procs[i].st = "running" =>
             /\ procs[i].spawned[1].command = CommandFor(procs[i].tests)
             /\ IF POLL
                THEN /\ Len(procs[i].tests) = 1
                     /\ procs[i].tests[1] \in SeqSet(taken)
                ELSE procs[i].tests = planned[i]
    /\ \A l \in runLog :
         l.spawned # <<>> => l.spawned[1].command = CommandFor(l.tests)

\* Weighted mode: the runner of bucket 0 runs with the first and the third
\* file in one command.
C30_Witness ==
    /\ ~POLL
    /\ 0 \in DOMAIN procs
    /\ procs[0].st = "running"
    /\ procs[0].spawned[1].command
         = "npx cypress run --spec \"e2e/1.cy.ts,e2e/3.cy.ts\""

\* ================================================================ C31 .. C40
\* The bucket totals after the files placed so far.
Totals == {bucketWeights[i] : i \in DOMAIN bucketWeights}
LargestWeight ==
    IF filesInfo = <<>> THEN 0
    ELSE MaxOf({filesInfo[k].weight : k \in 1..Len(filesInfo)})

\* C40: with files of positive weight and at least one bucket, after every
\* iteration of the placement loop, and so at the return, the heaviest bucket
\* total exceeds the lightest by at most the largest weight of a file.
C40_SpreadBound ==
    (planPc \in {"place", "done"} /\ bucketsCount >= 1
       /\ \A k \in 1..Len(filesInfo) : filesInfo[k].weight >= 1) =>
        MaxOf(Totals) - MinOf(Totals) <= LargestWeight

\* In the middle of the placement, and at the return, the spread is as large
\* as the bound allows, with several files in a bucket.
C40_Witness ==
    /\ planPc = "place"
    /\ bucketsCount = 2
    /\ Len(filesInfo) = 4
    /\ cursor = 4
    /\ LargestWeight = 3
    /\ MaxOf(Totals) - MinOf(Totals) = LargestWeight
    /\ \E i \in DOMAIN buckets : Len(buckets[i]) = 2

\* The runCypress calls of worker i that have completed, and the runners still
\* alive: the call a worker waits in has a runner once it was spawned.
CallsOf(i) == {l \in runLog : l.index = i}
Alive == {i \in DOMAIN procs : procs[i].st = "running"}
Pending == {i \in DOMAIN procs : procs[i].st \in {"xvfb", "running"}}

\* C31: in both modes process.exit is called at most once in a run; the
\* verdict over the results is given once, when every started worker has
\* delivered its result, and never while a runner or a startXvfb of the run is
\* still pending.
C31_VerdictOnce ==
    /\ Len(exitCalls) <= 1
    /\ (pc = "exit") = (Len(exitCalls) = 1)
    /\ (results # <<>> \/ exitPath = "aggregate") =>
           /\ Aggregated
           /\ Pending = {}
           /\ DOMAIN settled = DOMAIN procs
           /\ \A i \in DOMAIN procs : procs[i].st = "done"
           /\ Len(results) = Cardinality(DOMAIN procs)
    /\ exitCalls # <<>> => Pending = {}

\* Weighted mode on Linux: two workers, one of them failed, one verdict.
C31_Witness ==
    /\ Aggregated
    /\ ~POLL
    /\ IS_LINUX
    /\ Cardinality(DOMAIN procs) = 2
    /\ \A i \in DOMAIN procs : runners[i] = 1
    /\ exitCalls = <<1>>
    /\ \E k \in 1..Len(results) : results[k].status = "fulfilled"

\* C32: every started worker gives exactly one result, with its own index,
\* which is never replaced; the workers are the non-empty buckets (weighted)
\* or the started loops, a loop giving one result for all its file runs
\* (polling); the results aggregated are as many as the workers started and
\* no two of them have the same index.
C32_OneResultPerWorker ==
    /\ [](LET planned == PlannedBuckets IN
          /\ \A i \in DOMAIN settled :
               /\ i \in DOMAIN procs
               /\ procs[i].st = "done"
               /\ settled[i].index = i
          /\ WeightedStarted => DOMAIN procs = LiveBuckets(planned)
          /\ (POLL /\ pc \in {"await", "exit"}) =>
                 DOMAIN procs = 0..(numWorkers - 1)
          /\ Aggregated =>
                 /\ Len(results) = Cardinality(DOMAIN procs)
                 /\ {results[k].index : k \in 1..Len(results)} = DOMAIN procs
                 /\ \A j, k \in 1..Len(results) :
                      results[j].index = results[k].index => j = k)
    /\ [][\A i \in DOMAIN settled :
            i \in DOMAIN settled' /\ settled'[i] = settled[i]]_vars

\* Polling mode: two loops ran three files, worker 0 two of them, and two
\* results were aggregated.
C32_Witness ==
    /\ POLL
    /\ Aggregated
    /\ Len(testFiles) = 3
    /\ Len(results) = 2
    /\ Cardinality(CallsOf(0)) = 2
    /\ results[2].index = 1

\* C33: polling mode: when a file run of a worker ends, failed or not, the
\* worker takes the head of the queue and runs it if the queue is not empty,
\* and returns only if it is empty; a failure is kept in its flag. So every
\* file is run once a worker loop exists, the files behind a failing one too.
C33_FailureDoesNotStopLoop ==
    /\ []((POLL /\ Aggregated /\ DOMAIN procs # {}) =>
            \A f \in Files : \E l \in runLog : l.tests = <<f>>)
    /\ [][POLL =>
            \A l \in runLog' \ runLog :
                LET i == l.index IN
                /\ l.result.status # "fulfilled" => procs'[i].hasFailed
                /\ IF queue # <<>>
                   THEN /\ procs'[i].st \in {"xvfb", "running"}
                        /\ procs'[i].tests = <<Head(queue)>>
                        /\ queue' = Tail(queue)
                   ELSE procs'[i].st = "done"]_vars

\* One worker: its run of file 1 failed, its run of file 2 errored, and file 3
\* was run after them and passed.
C33_Witness ==
    /\ POLL
    /\ DOMAIN procs = {0}
    /\ Len(testFiles) = 3
    /\ \E l \in runLog : l.tests = <<1>> /\ NonZeroExit(l.result)
    /\ \E l \in runLog : l.tests = <<2>> /\ Errored(l)
    /\ \E l \in runLog : l.tests = <<3>> /\ l.result.status = "fulfilled"
    /\ settled[0].status = "rejected"

\* The runners of worker i that were spawned and have not exited.
AliveOf(i) ==
    runners[i] - Cardinality({l \in CallsOf(i) : l.spawned # <<>>})

\* C34 (as claimed): at every moment at most as many runners are alive as
\* there are non-empty buckets (weighted mode) or as min(WORKERS, file count)
\* (polling mode), and each worker has at most one runner alive.
C34_BoundedRunners ==
    LET planned == PlannedBuckets IN
    /\ \A i \in DOMAIN runners : AliveOf(i) <= 1
    /\ \A i \in DOMAIN runners : (AliveOf(i) = 1) = (i \in Alive)
    /\ WeightedStarted =>
           Cardinality(Alive) <= Cardinality(LiveBuckets(planned))
    /\ (POLL /\ (pc \in {"spawn", "await"} \/ Aggregated)) =>
           Cardinality(Alive) <= (IF WORKERS < Len(testFiles)
                                  THEN WORKERS ELSE Len(testFiles))

\* The number of files of the runCypress calls in S.
RECURSIVE FilesPassed(_)
FilesPassed(S) ==
    IF S = {} THEN 0
    ELSE LET l == CHOOSE x \in S : TRUE
         IN  Len(l.tests) + FilesPassed(S \ {l})

\* C35: completedTests is 0 at the start, never decreases, grows by the
\* number of files of a runCypress call exactly when that call's result is
\* fulfilled, and never exceeds the number of discovered files, in both
\* modes; every progress line was logged with completedTests < totalTests.
C35_ProgressCounter ==
    /\ [](/\ pc \in {"validate", "collect", "mode", "spawn"} => completedTests = 0
          /\ completedTests >= 0
          /\ completedTests <= Len(testFiles)
          /\ completedTests
               = FilesPassed({l \in runLog : l.result.status = "fulfilled"})
          /\ \A p \in progress :
               /\ p.total = Len(testFiles)
               /\ p.completed < p.total
               /\ p.completed <= completedTests)
    /\ [][/\ completedTests' >= completedTests
          /\ \A l \in runLog' \ runLog :
               completedTests' =
                   completedTests + (IF l.result.status = "fulfilled"
                                     THEN Len(l.tests) ELSE 0)
          /\ runLog' = runLog => completedTests' = completedTests]_vars

\* Weighted mode: a bucket of two files passed and logged 2/3; the bucket of
\* the third file passed last and logged nothing.
C35_Witness ==
    /\ ~POLL
    /\ Len(testFiles) = 3
    /\ completedTests = 3
    /\ progress = {[completed |-> 2, total |-> 3]}

\* The outcome of a runner that exited with code 0.
Passed == [kind |-> "close", code |-> 0]

\* C36 (as claimed): the run exits with code 0 only if every discovered file
\* was passed to a runCypress call whose runner exited with code 0.
C36_ExitZeroMeansAllPassed ==
    exitCalls = <<0>> =>
        \A f \in Files :
            \E l \in runLog : f \in SeqSet(l.tests) /\ l.outcome = Passed

\* C37 (as claimed): polling mode: whenever some worker has returned the
\* queue is empty, and when all workers have returned every discovered file
\* was dequeued.
C37_TerminalMeansEmptyQueue ==
    POLL =>
        /\ (\E i \in DOMAIN procs : procs[i].st = "done") => queue = <<>>
        /\ (pc \in {"await", "exit"} /\ AllSettled(procs, settled)) =>
               /\ queue = <<>>
               /\ taken = testFiles

\* C38: polling mode: no runCypress call completes before every worker was
\* started; the k-th worker started takes the k-th discovered file in the
\* start loop, so every started worker runs at least one file, and the first
\* file of worker i (counted from 0) is the file at place i + 1.
C38_FirstFilePerWorker ==
    /\ []((POLL /\ pc = "spawn") =>
            /\ runLog = {}
            /\ Len(taken) = started
            /\ \A i \in DOMAIN procs : procs[i].st \in {"xvfb", "running"})
    /\ []((POLL /\ pc \in {"await", "exit"}) =>
            /\ DOMAIN procs = 0..(numWorkers - 1)
            /\ \A i \in DOMAIN procs :
                 /\ i + 1 <= Len(testFiles)
                 /\ \/ /\ procs[i].st \in {"xvfb", "running"}
                       /\ procs[i].tests = <<testFiles[i + 1]>>
                    \/ \E l \in CallsOf(i) : l.tests = <<testFiles[i + 1]>>)
    /\ [][(POLL /\ pc = "spawn" /\ started' = started + 1) =>
            /\ started + 1 <= Len(testFiles)
            /\ taken' = Append(taken, testFiles[started + 1])
            /\ started \in DOMAIN procs'
            /\ procs'[started].tests = <<testFiles[started + 1]>>]_vars

\* Three workers and three files: worker 2 started with the third file while
\* the first two are still running.
C38_Witness ==
    /\ POLL
    /\ pc = "await"
    /\ DOMAIN procs = {0, 1, 2}
    /\ runLog = {}
    /\ procs[2].tests = <<3>>
    /\ procs[0].tests = <<1>>

\* C39: polling mode with at least one worker: at the verdict every file has
\* one runCypress call, and the exit code is 1 exactly when the runner of some
\* file did not exit with code 0 (an exit code other than 0, a signal, an
\* 'error' event or a startXvfb that rejected): a function of the outcomes
\* of the files, whichever worker ran them and in whatever order they ended.
C39_ExitCodeByOutcomes ==
    (POLL /\ WORKERS >= 1 /\ Aggregated) =>
        /\ \A f \in Files :
             Cardinality({l \in runLog : l.tests = <<f>>}) = 1
        /\ \A l \in runLog : Len(l.tests) = 1 /\ l.tests[1] \in Files
        /\ exitCalls = <<IF \E l \in runLog : l.outcome # Passed
                         THEN 1 ELSE 0>>

\* Two workers, three files: only the third file failed, run by worker 1
\* after worker 1's first file ended before worker 0's did.
C39_Witness ==
    /\ POLL
    /\ Aggregated
    /\ WORKERS = 2
    /\ Len(testFiles) = 3
    /\ \E l \in runLog : l.index = 1 /\ l.tests = <<3>> /\ l.outcome = [kind |-> "error"]
    /\ \A l \in runLog : l.tests # <<3>> => l.outcome = Passed
    /\ results[1].status = "fulfilled"
    /\ exitCalls = <<1>>

====
